---- MODULE Spec2Model ----
(***************************************************************************)
(* CH-form stabilizer state record (chstate.py): the basis factory, qubit  *)
(* deletion, entrywise sum and difference, and the two text renderings.    *)
(*                                                                         *)
(* numpy arrays are modelled the way numpy keeps them: a buffer in a heap  *)
(* plus a shape, read in row-major order.  An operation of the program     *)
(* yields, per field, either a freshly allocated array (kind "new") or a   *)
(* reference to an existing buffer (kind "ref", what a view or an          *)
(* un-copied argument is).  Entries are unsigned 8-bit.                    *)
(***************************************************************************)
EXTENDS Integers, Sequences, FiniteSets, TLC

VARIABLES heap, x, y, r, t, arg, last, out

vars == <<heap, x, y, r, t, arg, last, out>>

----------------------------------------------------------------------------
(* Bounds of the model *)

\* largest qubit count N handed to basis and to the CHState constructor
MaxN == 3
\* longest bitstring handed to basis
MaxLen == 3
\* number of distinct fill patterns (minus one) of constructed states
MaxSeed == 5
\* a qubit count whose decimal form has two digits (rendering only)
TwoDigitN == 10

\* number of values of an unsigned 8-bit entry (dtype=np.uint8)
U8 == 256

----------------------------------------------------------------------------
(* Optional values: Python's None and "some value" *)

None == << >>
Some(v) == <<v>>
Val(o) == o[1]

----------------------------------------------------------------------------
(* Floats with a signed zero (integer-valued), and Python complex *)

Float(neg, mag) == [neg |-> neg, mag |-> mag]
FNeg(a) == Float(~a.neg, a.mag)
FInt(a) == IF a.neg THEN 0 - a.mag ELSE a.mag
FMul(a, b) == Float(a.neg # b.neg, a.mag * b.mag)
\* IEEE-754 sum, round-to-nearest: an exact zero sum is -0 only for (-0)+(-0)
FAdd(a, b) ==
    LET sum == FInt(a) + FInt(b) IN
    IF sum > 0 THEN Float(FALSE, sum)
    ELSE IF sum < 0 THEN Float(TRUE, 0 - sum)
    ELSE IF a.mag = 0 /\ b.mag = 0 THEN Float(a.neg /\ b.neg, 0)
    ELSE Float(FALSE, 0)
FSub(a, b) == FAdd(a, FNeg(b))
\* quotient; exact for the divisors that occur (magnitude 1)
FDiv(a, b) == Float(a.neg # b.neg, a.mag \div b.mag)

complex(re, im) == [re |-> re, im |-> im]
\* complex.__mul__
CMul(a, b) ==
    complex(FSub(FMul(a.re, b.re), FMul(a.im, b.im)),
            FAdd(FMul(a.re, b.im), FMul(a.im, b.re)))
\* complex.__truediv__ (CPython's _Py_c_quot)
CDiv(a, b) ==
    IF b.re.mag >= b.im.mag
    THEN LET ratio == FDiv(b.im, b.re)
             denom == FAdd(b.re, FMul(b.im, ratio))
         IN complex(FDiv(FAdd(a.re, FMul(a.im, ratio)), denom),
                    FDiv(FSub(a.im, FMul(a.re, ratio)), denom))
    ELSE LET ratio == FDiv(b.re, b.im)
             denom == FAdd(FMul(b.re, ratio), b.im)
         IN complex(FDiv(FAdd(FMul(a.re, ratio), a.im), denom),
                    FDiv(FSub(FMul(a.im, ratio), a.re), denom))

One == complex(Float(FALSE, 1), Float(FALSE, 0))

----------------------------------------------------------------------------
(* numpy arrays *)

Fields == {"A", "B", "C", "g", "v", "s"}
Regs == {"x", "y", "r", "t"}
ArgBuf == <<"arg", "s">>
Bufs == (Regs \X Fields) \cup {ArgBuf}

RECURSIVE Size(_)
Size(shape) == IF shape = << >> THEN 1 ELSE Head(shape) * Size(Tail(shape))

New(shape, data) == [kind |-> "new", buf |-> <<"", "">>, shape |-> shape, data |-> data]
Ref(buf, shape) == [kind |-> "ref", buf |-> buf, shape |-> shape, data |-> << >>]

\* the entries of array a, row-major
Read(h, a) == IF a.kind = "ref" THEN SubSeq(h[a.buf], 1, Size(a.shape)) ELSE a.data

len(a) == a.shape[1]

uint8(n) == n % U8

np_zeros(shape) == New(shape, [k \in 1..Size(shape) |-> 0])
\* np.ones in place of np.eye
np_eye_ones(N) == New(<<N, N>>, [k \in 1..(N * N) |-> 1])
np_eye(N) == New(<<N, N>>, [k \in 1..(N * N) |-> IF (k - 1) \div N = (k - 1) % N THEN 1 ELSE 0])
np_ones_bool(N) == [k \in 1..N |-> TRUE]

\* the argument handed on without a copy (np.asarray)
np_array_nocopy(h, a) == a

\* np.array(s, dtype=np.uint8): always a copy, entries coerced to uint8
np_array(h, a) == New(a.shape, [k \in 1..Size(a.shape) |-> uint8(Read(h, a)[k])])

\* the slice bound ignored
SliceTo_whole(a, n) == a

\* a[:n] of a one-dimensional array: a view of the same storage
SliceTo(a, n) ==
    LET m == IF n <= len(a) THEN n ELSE len(a) IN
    IF a.kind = "ref" THEN Ref(a.buf, <<m>>) ELSE New(<<m>>, SubSeq(a.data, 1, m))

np_concatenate(h, a, b) == New(<<len(a) + len(b)>>, Read(h, a) \o Read(h, b))

----------------------------------------------------------------------------
(* The CHState record *)

CHState(N, A, B, C, g, v, s, phase) ==
    [N |-> N, A |-> A, B |-> B, C |-> C, g |-> g, v |-> v, s |-> s, phase |-> phase]

F(st) == st.A
G(st) == st.B
M(st) == st.C
gamma(st) == st.g
w(st) == st.phase

RECURSIVE basis(_, _, _)
basis(h, N, s) ==
    IF N = None /\ s = None
    THEN CHState(1, np_eye(1), np_eye(1), np_zeros(<<1, 1>>),
                 np_zeros(<<1>>), np_zeros(<<1>>), np_zeros(<<1>>), One)
    ELSE IF N # None /\ s = None
    THEN CHState(Val(N), np_eye(Val(N)), np_eye(Val(N)), np_zeros(<<Val(N), Val(N)>>),
                 np_zeros(<<Val(N)>>), np_zeros(<<Val(N)>>), np_zeros(<<Val(N)>>), One)
    ELSE IF N = None /\ s # None
    THEN LET n == len(Val(s))
             s1 == np_array(h, Val(s))
         IN CHState(n, np_eye(n), np_eye(n), np_zeros(<<n, n>>),
                    np_zeros(<<n>>), np_zeros(<<n>>), s1, One)
    ELSE LET s1 == np_array(h, Val(s)) IN
         IF Val(N) <= len(s1)
         THEN basis(h, None, Some(SliceTo(s1, Val(N))))
         ELSE basis(h, None, Some(np_concatenate(h, s1, np_zeros(<<Val(N) - len(s1)>>))))

----------------------------------------------------------------------------
(* Registers of the caller: storing a returned state *)

\* the heap after the arrays a call allocated are placed in register reg
Place(h, reg, st) ==
    [b \in Bufs |->
        IF b[1] = reg
        THEN (IF st[b[2]].kind = "new" THEN st[b[2]].data ELSE << >>)
        ELSE h[b]]

Held(reg, a, f) == IF a.kind = "new" THEN Ref(<<reg, f>>, a.shape) ELSE a

\* the state as register reg holds it: every array a reference into the heap
Bind(reg, st) ==
    CHState(st.N, Held(reg, st.A, "A"), Held(reg, st.B, "B"), Held(reg, st.C, "C"),
            Held(reg, st.g, "g"), Held(reg, st.v, "v"), Held(reg, st.s, "s"), st.phase)

EmptyHeap == [b \in Bufs |-> << >>]

NoCall == [op |-> "none", reg |-> "", raised |-> "none", prev |-> "none", k |-> 0, N |-> None, s |-> None]
Call(op, reg, raised, k, N, s) ==
    [op |-> op, reg |-> reg, raised |-> raised, prev |-> last.op, k |-> k, N |-> N, s |-> s]

----------------------------------------------------------------------------
(* Entrywise arithmetic with numpy's broadcasting *)

Broadcastable(sa, sb) ==
    /\ Len(sa) = Len(sb)
    /\ \A d \in 1..Len(sa) : sa[d] = sb[d] \/ sa[d] = 1 \/ sb[d] = 1

BroadcastShape(sa, sb) == [d \in 1..Len(sa) |-> IF sa[d] = 1 THEN sb[d] ELSE sa[d]]

\* the index tuple (0-based) of the k-th entry (0-based) of an array of this shape
Unravel(shape, k) ==
    IF Len(shape) = 1 THEN <<k>> ELSE <<k \div shape[2], k % shape[2]>>

\* the entry of a that index idx of the broadcast result reads
At(h, a, idx) ==
    LET i == [d \in 1..Len(a.shape) |-> IF a.shape[d] = 1 THEN 0 ELSE idx[d]]
        flat == IF Len(a.shape) = 1 THEN i[1] ELSE i[1] * a.shape[2] + i[2]
    IN Read(h, a)[flat + 1]

\* a difference that saturates at zero instead of wrapping
Sub8_saturating(a, b) == IF a < b THEN 0 ELSE a - b
\* every field reduced modulo 2, gamma too
Mod8_bits(a, m) == a % 2

Sub8(a, b) == uint8(a - b)
Add8(a, b) == uint8(a + b)
Mod8(a, m) == a % m

\* (a - b) % np.uint8(m)
np_sub_mod(h, a, b, m) ==
    LET shape == BroadcastShape(a.shape, b.shape) IN
    New(shape, [k \in 1..Size(shape) |->
            Mod8(Sub8(At(h, a, Unravel(shape, k - 1)), At(h, b, Unravel(shape, k - 1))), m)])

\* (a + b) % np.uint8(m)
np_add_mod(h, a, b, m) ==
    LET shape == BroadcastShape(a.shape, b.shape) IN
    New(shape, [k \in 1..Size(shape) |->
            Mod8(Add8(At(h, a, Unravel(shape, k - 1)), At(h, b, Unravel(shape, k - 1))), m)])

\* numpy raises ValueError ("operands could not be broadcast together")
ShapeError(self, other) == \E f \in Fields : ~Broadcastable(self[f].shape, other[f].shape)

sub(h, self, other) ==
    CHState(self.N,
            np_sub_mod(h, self.A, other.A, 2),
            np_sub_mod(h, self.B, other.B, 2),
            np_sub_mod(h, self.C, other.C, 2),
            np_sub_mod(h, self.g, other.g, 4),
            np_sub_mod(h, self.v, other.v, 2),
            np_sub_mod(h, self.s, other.s, 2),
            CDiv(self.phase, other.phase))

add(h, self, other) ==
    CHState(self.N,
            np_add_mod(h, self.A, other.A, 2),
            np_add_mod(h, self.B, other.B, 2),
            np_add_mod(h, self.C, other.C, 2),
            np_add_mod(h, self.g, other.g, 4),
            np_add_mod(h, self.v, other.v, 2),
            np_add_mod(h, self.s, other.s, 2),
            CMul(self.phase, other.phase))

----------------------------------------------------------------------------
(* Qubit deletion *)

\* mask[k] = False accepts -N <= k < N and counts a negative k from the end
IndexOk(n, k) == 0 - n <= k /\ k < n
Wrapped(n, k) == IF k < 0 THEN n + k ELSE k

\* the mask cleared one place too far
MaskWithout_next(n, k) == [np_ones_bool(n) EXCEPT ![((Wrapped(n, k) + 1) % n) + 1] = FALSE]

MaskWithout(n, k) == [np_ones_bool(n) EXCEPT ![Wrapped(n, k) + 1] = FALSE]

\* np.outer(mask, mask), row-major
np_outer(m1, m2) ==
    [q \in 1..(Len(m1) * Len(m2)) |-> m1[((q - 1) \div Len(m2)) + 1] /\ m2[((q - 1) % Len(m2)) + 1]]

RECURSIVE Select(_, _)
Select(data, mask) ==
    IF data = << >> THEN << >>
    ELSE (IF Head(mask) THEN <<Head(data)>> ELSE << >>) \o Select(Tail(data), Tail(mask))

\* a[mask]: the entries where mask holds, in row-major order, as a new array
BoolIndex(h, a, mask) ==
    LET kept == Select(Read(h, a), mask) IN New(<<Len(kept)>>, kept)

reshape(a, shape) == New(shape, a.data)

\* a boolean index must have the indexed array's shape; reshape must keep the size
DeleteError(self, k) ==
    IF ~IndexOk(self.N, k) THEN "IndexError"
    ELSE IF \E f \in {"A", "B", "C"} : self[f].shape # <<self.N, self.N>> THEN "IndexError"
    ELSE IF \E f \in {"g", "v", "s"} : self[f].shape # <<self.N>> THEN "IndexError"
    ELSE "none"

delete_qubit(h, self, k) ==
    LET mask == MaskWithout(self.N, k)
        mask2d == np_outer(mask, mask)
    IN CHState(self.N - 1,
               reshape(BoolIndex(h, self.A, mask2d), <<self.N - 1, self.N - 1>>),
               reshape(BoolIndex(h, self.B, mask2d), <<self.N - 1, self.N - 1>>),
               reshape(BoolIndex(h, self.C, mask2d), <<self.N - 1, self.N - 1>>),
               BoolIndex(h, self.g, mask),
               BoolIndex(h, self.v, mask),
               BoolIndex(h, self.s, mask),
               self.phase)

----------------------------------------------------------------------------
(* Text: a string is a sequence of one-character strings *)

Digits == <<"0", "1", "2", "3", "4", "5", "6", "7", "8", "9">>

\* str(n) of a non-negative int (and of a numpy uint8 scalar)
RECURSIVE str_int(_)
str_int(n) == IF n < 10 THEN <<Digits[n + 1]>> ELSE str_int(n \div 10) \o <<Digits[(n % 10) + 1]>>

\* repr of one part of a complex: an integer-valued float, without ".0"
str_part(a, sign) ==
    (IF a.neg THEN <<"-">> ELSE IF sign THEN <<"+">> ELSE << >>) \o str_int(a.mag)

\* str(complex): "1j" for a real part +0, "(re+imj)" otherwise
str_complex(c) ==
    IF c.re.mag = 0 /\ ~c.re.neg
    THEN str_part(c.im, FALSE) \o <<"j">>
    ELSE <<"(">> \o str_part(c.re, FALSE) \o str_part(c.im, TRUE) \o <<"j", ")">>

Spaces(n) == [k \in 1..n |-> " "]

RECURSIVE _rowToStr(_)
_rowToStr(row) == IF row = << >> THEN << >> ELSE str_int(Head(row)) \o _rowToStr(Tail(row))

\* the i-th item (0-based) that iterating over array a yields
Item(h, a, i) ==
    IF Len(a.shape) = 1 THEN Read(h, a)[i + 1]
    ELSE SubSeq(Read(h, a), i * a.shape[2] + 1, (i + 1) * a.shape[2])

\* zip(...) stops with the shortest of the six arrays
Min(S) == CHOOSE m \in S : \A e \in S : m <= e
ZipLen(self) == Min({self[f].shape[1] : f \in Fields})

\* " "*qubitNumberStrLen before every row but the first
Pad_none(i, qubitNumberStrLen) == << >>
Pad(i, qubitNumberStrLen) == IF i # 0 THEN Spaces(qubitNumberStrLen) ELSE << >>

\* one pass of the loop shared by tab and __str__, without the i == 0 reset
RowText(h, self, i, qubitNumberStrLen) ==
    Pad(i, qubitNumberStrLen)
    \o _rowToStr(Item(h, F(self), i)) \o <<" ">> \o _rowToStr(Item(h, G(self), i)) \o <<" ">>
    \o _rowToStr(Item(h, M(self), i)) \o <<" ">> \o str_int(Item(h, self.g, i)) \o <<" ">>
    \o str_int(Item(h, self.v, i)) \o <<" ">> \o str_int(Item(h, self.s, i))
    \o (IF i = 0 THEN <<" ">> \o str_complex(self.phase) ELSE << >>)
    \o <<"\n">>

RECURSIVE Rows(_, _, _, _)
Rows(h, self, i, qubitNumberStrLen) ==
    IF i >= ZipLen(self) THEN << >>
    ELSE RowText(h, self, i, qubitNumberStrLen) \o Rows(h, self, i + 1, qubitNumberStrLen)

half_matrix_width_up(N) == (N + 1) \div 2
half_matrix_width(N) == N \div 2

tab(h, self) ==
    LET s0 == str_int(self.N) \o <<" ">>
        qubitNumberStrLen == Len(s0)
        matrix_width == self.N
    IN <<"N">> \o Spaces(qubitNumberStrLen - 1 + half_matrix_width(self.N))
       \o <<"F">> \o Spaces(matrix_width) \o <<"G">> \o Spaces(matrix_width) \o <<"M">>
       \o Spaces(matrix_width - half_matrix_width(self.N))
       \o <<"g", " ", "v", " ", "s", " ", "w", "\n">> \o s0
       \o Rows(h, self, 0, qubitNumberStrLen)

__str__(h, self) ==
    IF ZipLen(self) = 0 THEN << >>
    ELSE LET s0 == str_int(self.N) \o <<" ">>
         IN s0 \o Rows(h, self, 0, Len(s0))

----------------------------------------------------------------------------
(* Inputs *)

RECURSIVE BitSeqs(_)
BitSeqs(n) == IF n = 0 THEN {<< >>} ELSE {b \o <<e>> : b \in BitSeqs(n - 1), e \in {0, 1}}

Bitstrings == UNION {BitSeqs(n) : n \in 0..MaxLen}
OptN == {None} \cup {Some(n) : n \in 0..MaxN}
OptS == {None} \cup {Some(b) : b \in Bitstrings}

\* entries of the states built directly with the CHState constructor
BitPattern == <<0, 1, 1, 0, 1, 0, 0>>
QuadPattern == <<0, 1, 2, 3, 3, 1, 2>>
BytePattern == <<0, 1, 2, 3, 254, 255, 128>>
Units == <<complex(Float(FALSE, 1), Float(FALSE, 0)), complex(Float(FALSE, 0), Float(FALSE, 1)),
           complex(Float(TRUE, 1), Float(FALSE, 0)), complex(Float(FALSE, 0), Float(TRUE, 1))>>

Entry(seed, wide, quad, off, k) ==
    LET i == ((seed + off + k - 1) % 7) + 1 IN
    IF wide THEN BytePattern[i] ELSE IF quad THEN QuadPattern[i] ELSE BitPattern[i]

Filled(shape, seed, wide, quad, off) ==
    New(shape, [k \in 1..Size(shape) |-> Entry(seed, wide, quad, off, k)])

\* a well-shaped state of size n given to the dataclass constructor
Constructed(n, seed, wide) ==
    CHState(n,
            Filled(<<n, n>>, seed, wide, FALSE, 0),
            Filled(<<n, n>>, seed, wide, FALSE, 2),
            Filled(<<n, n>>, seed, wide, FALSE, 3),
            Filled(<<n>>, seed, wide, TRUE, 1),
            Filled(<<n>>, seed, wide, FALSE, 5),
            Filled(<<n>>, seed, wide, FALSE, 4),
            Units[(seed % 4) + 1])

----------------------------------------------------------------------------
(* Operations.  The calling program binds X, then Y, then R = an operation *)
(* on them, then T = R + Y or R - Y; Loading, Operating, Chaining and      *)
(* Rendering are its positions.  last records the most recent call, its    *)
(* arguments and the exception it raised.                                  *)

\* the register of that name
Reg(name) == CASE name = "x" -> x [] name = "y" -> y [] name = "r" -> r [] OTHER -> t

Init ==
    /\ heap = EmptyHeap
    /\ x = None
    /\ y = None
    /\ r = None
    /\ t = None
    /\ arg = None
    /\ last = NoCall
    /\ out = None

Loading(reg) ==
    /\ r = None /\ t = None /\ out = None
    /\ last.op \in {"none", "basis", "CHState"}
    /\ IF reg = "x" THEN x = None ELSE (x # None /\ y = None)

Bound(reg, st) ==
    /\ IF reg = "x" THEN x' = Some(Bind("x", st)) /\ y' = y
                    ELSE y' = Some(Bind("y", st)) /\ x' = x
    /\ r' = None
    /\ t' = None
    /\ out' = None

\* reg = CHState.basis(N, s), the caller's sequence s kept or dropped afterwards
DoBasis(reg, N, s, keep) ==
    LET h0 == [heap EXCEPT ![ArgBuf] = IF s = None THEN << >> ELSE Val(s)]
        a == IF s = None THEN None ELSE Some(Ref(ArgBuf, <<Len(Val(s))>>))
        st == basis(h0, N, a)
        h1 == Place(h0, reg, st)
    IN /\ Loading(reg)
       /\ heap' = (IF keep THEN h1 ELSE [h1 EXCEPT ![ArgBuf] = << >>])
       /\ arg' = (IF keep THEN a ELSE None)
       /\ last' = Call("basis", reg, "none", 0, N, s)
       /\ Bound(reg, st)

CallBasis == \E reg \in {"x", "y"}, N \in OptN, s \in OptS : DoBasis(reg, N, s, FALSE)

\* reg = CHState(N, A, B, C, g, v, s, phase)
CallConstructor ==
    \E reg \in {"x", "y"}, n \in 0..MaxN, seed \in 0..MaxSeed, wide \in BOOLEAN :
        /\ Loading(reg)
        /\ heap' = Place(heap, reg, Constructed(n, seed, wide))
        /\ arg' = None
        /\ last' = Call("CHState", reg, "none", 0, None, None)
        /\ Bound(reg, Constructed(n, seed, wide))

Returned(reg, raised, st) ==
    IF raised # "none"
    THEN /\ heap' = heap
         /\ IF reg = "r" THEN r' = None /\ t' = t ELSE t' = None /\ r' = r
    ELSE /\ heap' = Place(heap, reg, st)
         /\ IF reg = "r" THEN r' = Some(Bind("r", st)) /\ t' = t
                         ELSE t' = Some(Bind("t", st)) /\ r' = r

Operating ==
    /\ x # None /\ y # None /\ r = None /\ t = None /\ out = None
    /\ last.op \in {"basis", "CHState"}

\* R = X - Y
CallSub ==
    /\ Operating
    /\ LET raised == IF ShapeError(Val(x), Val(y)) THEN "ValueError" ELSE "none" IN
       /\ last' = Call("sub", "r", raised, 0, None, None)
       /\ Returned("r", raised, sub(heap, Val(x), Val(y)))
    /\ UNCHANGED <<x, y, arg, out>>

\* R = X + Y
CallAdd ==
    /\ Operating
    /\ LET raised == IF ShapeError(Val(x), Val(y)) THEN "ValueError" ELSE "none" IN
       /\ last' = Call("add", "r", raised, 0, None, None)
       /\ Returned("r", raised, add(heap, Val(x), Val(y)))
    /\ UNCHANGED <<x, y, arg, out>>

\* R = X.delete_qubit(k)
CallDelete ==
    \E k \in (0 - MaxN - 2)..(MaxN + 1) :
        /\ Operating
        /\ k \in (0 - Val(x).N - 1)..Val(x).N
        /\ last' = Call("delete_qubit", "r", DeleteError(Val(x), k), k, None, None)
        /\ Returned("r", DeleteError(Val(x), k), delete_qubit(heap, Val(x), k))
        /\ UNCHANGED <<x, y, arg, out>>

Chaining ==
    /\ r # None /\ t = None /\ out = None
    /\ last.op \in {"add", "sub", "delete_qubit"}
    /\ last.reg = "r"

\* T = R + Y
CallAddBack ==
    /\ Chaining
    /\ LET raised == IF ShapeError(Val(r), Val(y)) THEN "ValueError" ELSE "none" IN
       /\ last' = Call("add", "t", raised, 0, None, None)
       /\ Returned("t", raised, add(heap, Val(r), Val(y)))
    /\ UNCHANGED <<x, y, arg, out>>

\* T = R - Y
CallSubBack ==
    /\ Chaining
    /\ LET raised == IF ShapeError(Val(r), Val(y)) THEN "ValueError" ELSE "none" IN
       /\ last' = Call("sub", "t", raised, 0, None, None)
       /\ Returned("t", raised, sub(heap, Val(r), Val(y)))
    /\ UNCHANGED <<x, y, arg, out>>

\* a state whose qubit count prints with two digits
CallConstructorTwoDigit ==
    \E seed \in 0..MaxSeed, wide \in BOOLEAN :
        /\ Loading("x")
        /\ heap' = Place(heap, "x", Constructed(TwoDigitN, seed, wide))
        /\ arg' = None
        /\ last' = Call("CHState", "x", "none", 0, None, None)
        /\ Bound("x", Constructed(TwoDigitN, seed, wide))

Rendering ==
    /\ x # None /\ y = None /\ r = None /\ t = None /\ out = None
    /\ last.op \in {"basis", "CHState"}

\* out = str(X)
CallStr ==
    /\ Rendering
    /\ out' = Some(__str__(heap, Val(x)))
    /\ last' = Call("str", "out", "none", 0, None, None)
    /\ UNCHANGED <<heap, x, y, r, t, arg>>

\* out = X.tab()
CallTab ==
    /\ Rendering
    /\ out' = Some(tab(heap, Val(x)))
    /\ last' = Call("tab", "out", "none", 0, None, None)
    /\ UNCHANGED <<heap, x, y, r, t, arg>>

NextFmt ==
    \/ CallBasis
    \/ CallConstructor
    \/ CallConstructorTwoDigit
    \/ CallStr
    \/ CallTab

SpecFmt == Init /\ [][NextFmt]_vars

\* reg = CHState.basis(N, s), the caller keeping its sequence s
CallBasisKeep == \E reg \in {"x", "y"}, N \in OptN, s \in OptS : DoBasis(reg, N, s, TRUE)

\* the arrays a caller reaches through a register, or its own sequence
HolderArrays(who) ==
    IF who = "arg" THEN (IF arg = None THEN {} ELSE {Val(arg)})
    ELSE IF Reg(who) = None THEN {} ELSE {Val(Reg(who))[f] : f \in Fields}

\* the caller adds one, in place, to the first entry of every array of who
CallWrite ==
    \E who \in {"x", "y", "r", "arg"} :
        LET hit == {a.buf : a \in {b \in HolderArrays(who) : Size(b.shape) >= 1}} IN
        /\ last.op \in {"basis", "add", "sub", "delete_qubit"}
        /\ hit # {}
        /\ heap' = [b \in Bufs |->
                       IF b \in hit THEN [heap[b] EXCEPT ![1] = uint8(@ + 1)] ELSE heap[b]]
        /\ last' = Call("write", who, "none", 0, None, None)
        /\ UNCHANGED <<x, y, r, t, arg, out>>

NextAlias ==
    \/ CallBasisKeep
    \/ CallSub
    \/ CallAdd
    \/ CallDelete
    \/ CallWrite

SpecAlias == Init /\ [][NextAlias]_vars

Next ==
    \/ CallBasis
    \/ CallConstructor
    \/ CallSub
    \/ CallAdd
    \/ CallDelete
    \/ CallAddBack
    \/ CallSubBack

Spec == Init /\ [][Next]_vars

----------------------------------------------------------------------------
(* Reading the caller's registers *)

\* an array as a caller sees it: its shape and its entries
ArrayValue(h, a) == [shape |-> a.shape, data |-> Read(h, a)]

\* a state as a caller sees it
StateValue(h, st) ==
    [N |-> st.N, F |-> ArrayValue(h, F(st)), G |-> ArrayValue(h, G(st)), M |-> ArrayValue(h, M(st)),
     gamma |-> ArrayValue(h, gamma(st)), v |-> ArrayValue(h, st.v), s |-> ArrayValue(h, st.s),
     phase |-> st.phase]

Matrices == {"F", "G", "M"}
Vectors == {"gamma", "v", "s"}

\* entry (i, j), 0-based, of a matrix value; entry i of a vector value
MatEntry(m, i, j) == m.data[i * m.shape[2] + j + 1]
VecEntry(a, i) == a.data[i + 1]

IsIdentity(m, n) ==
    /\ m.shape = <<n, n>>
    /\ Len(m.data) = n * n
    /\ \A i, j \in 0..(n - 1) : MatEntry(m, i, j) = (IF i = j THEN 1 ELSE 0)

IsZero(a, shape) ==
    /\ a.shape = shape
    /\ Len(a.data) = Size(shape)
    /\ \A k \in 1..Len(a.data) : a.data[k] = 0

WellShaped(sv) ==
    /\ \A f \in Matrices : sv[f].shape = <<sv.N, sv.N>> /\ Len(sv[f].data) = sv.N * sv.N
    /\ \A f \in Vectors : sv[f].shape = <<sv.N>> /\ Len(sv[f].data) = sv.N

\* the stored entries respect the moduli of the data model
InRange(sv) ==
    /\ \A f \in Matrices \cup {"v", "s"} : \A k \in 1..Len(sv[f].data) : sv[f].data[k] \in {0, 1}
    /\ \A k \in 1..Len(sv.gamma.data) : sv.gamma.data[k] \in 0..3

----------------------------------------------------------------------------
(* C1 *)

RequestedSize == 
    IF last.N # None THEN Val(last.N) ELSE IF last.s # None THEN Len(Val(last.s)) ELSE 1

\* C1: every form of CHState.basis (no arguments, N only, s only, both)
\* returns a state whose F and G are the identity of the result's size,
\* whose M is zero, whose gamma and v are zero vectors, whose phase is 1+0j,
\* and whose s is the requested bitstring: all zeros when s is omitted,
\* N = 1 and s = [0] when both are omitted, s itself when s is given
\* (cut or zero-filled to N entries when N is given too).
C1_BasisCanonical ==
    (last.op = "basis") =>
        /\ last.raised = "none"
        /\ Reg(last.reg) # None
        /\ LET sv == StateValue(heap, Val(Reg(last.reg)))
               n == RequestedSize
           IN /\ sv.N = n
              /\ IsIdentity(sv.F, n)
              /\ IsIdentity(sv.G, n)
              /\ IsZero(sv.M, <<n, n>>)
              /\ IsZero(sv.gamma, <<n>>)
              /\ IsZero(sv.v, <<n>>)
              /\ sv.phase = complex(Float(FALSE, 1), Float(FALSE, 0))
              /\ sv.s.shape = <<n>>
              /\ Len(sv.s.data) = n
              /\ \A i \in 1..n :
                    sv.s.data[i] = (IF last.s # None /\ i <= Len(Val(last.s))
                                    THEN Val(last.s)[i] ELSE 0)
              /\ (last.N = None /\ last.s = None) => (sv.N = 1 /\ sv.s.data = <<0>>)
              /\ (last.s # None /\ n = Len(Val(last.s))) => sv.s.data = Val(last.s)

C1_Witness ==
    /\ last.op = "basis"
    /\ last.reg = "y"
    /\ last.N = None
    /\ last.s = Some(<<1, 0, 1>>)
    /\ y # None
    /\ Val(y).N = 3

----------------------------------------------------------------------------
(* C2 *)

\* s cut to its first n entries, or filled with zero bits up to n entries
Normalised(s, n) == [i \in 1..n |-> IF i <= Len(s) THEN s[i] ELSE 0]

\* what basis(None, s1) returns to a caller holding the sequence s1
BasisOfBits(s1) ==
    LET h == [EmptyHeap EXCEPT ![ArgBuf] = s1]
    IN StateValue(h, basis(h, None, Some(Ref(ArgBuf, <<Len(s1)>>))))

\* C2: basis(N, s) equals basis(None, s') in every field, where s' is the
\* first N entries of s when N <= len(s) and s right-padded with zero bits
\* to length N when N > len(s); a length mismatch never raises.
C2_TruncateExtend ==
    (last.op = "basis" /\ last.N # None /\ last.s # None) =>
        /\ last.raised = "none"
        /\ Reg(last.reg) # None
        /\ StateValue(heap, Val(Reg(last.reg)))
               = BasisOfBits(Normalised(Val(last.s), Val(last.N)))
        /\ (last.N = Some(2) /\ last.s = Some(<<1, 1, 1>>))
               => StateValue(heap, Val(Reg(last.reg))).s.data = <<1, 1>>

C2_Witness ==
    /\ last.op = "basis"
    /\ last.N = Some(2)
    /\ last.s = Some(<<1, 1, 1>>)
    /\ x # None
    /\ ArrayValue(heap, Val(x).s).data = <<1, 1>>

C2_WitnessExtend ==
    /\ last.op = "basis"
    /\ last.N = Some(2)
    /\ last.s = Some(<<1>>)
    /\ x # None
    /\ ArrayValue(heap, Val(x).s).data = <<1, 0>>

----------------------------------------------------------------------------
(* C3 *)

\* the index in the original of entry i of the result, when entry k is removed
Skip(i, k) == IF i >= k THEN i + 1 ELSE i

\* C3: for a state of size N >= 1 and 0 <= k < N, delete_qubit(k) returns a
\* state of size N-1 whose F, G, M are the original matrices with row k and
\* column k removed (the rest in their original order), whose gamma, v, s
\* are the original vectors with entry k removed, and whose phase is the
\* original phase.
C3_DeleteShape ==
    (last.op = "delete_qubit" /\ 0 <= last.k /\ last.k < Val(x).N) =>
        /\ last.raised = "none"
        /\ r # None
        /\ LET before == StateValue(heap, Val(x))
               after == StateValue(heap, Val(r))
               n == before.N - 1
           IN /\ after.N = n
              /\ WellShaped(after)
              /\ \A f \in Matrices : \A i, j \in 0..(n - 1) :
                    MatEntry(after[f], i, j)
                        = MatEntry(before[f], Skip(i, last.k), Skip(j, last.k))
              /\ \A f \in Vectors : \A i \in 0..(n - 1) :
                    VecEntry(after[f], i) = VecEntry(before[f], Skip(i, last.k))
              /\ after.phase = before.phase

C3_Witness ==
    /\ last.op = "delete_qubit"
    /\ last.k = 0
    /\ last.raised = "none"
    /\ x # None /\ r # None
    /\ Val(x).N = 2
    /\ Val(r).N = 1
    /\ ArrayValue(heap, Val(x).A).data = <<0, 1, 2, 3>>
    /\ ArrayValue(heap, Val(r).A).data = <<3>>

----------------------------------------------------------------------------
(* C4 *)

\* the operands of the last sum or difference: R = X op Y, T = R op Y
LeftOperand == IF last.reg = "r" THEN x ELSE r

SameShapes(a, b) == a.N = b.N /\ WellShaped(a) /\ WellShaped(b)

TrueResult(a, b) == IF last.op = "sub" THEN a - b ELSE a + b

\* C4: for same-size states X, Y, whatever values their stored entries hold
\* (also where the 8-bit difference wraps below zero or the 8-bit sum wraps
\* above 255), every entry of F, G, M, v, s of X + Y and of X - Y lies in
\* {0,1} and equals the true (left +/- right) mod 2, and every entry of
\* gamma lies in {0,1,2,3} and equals the true (left +/- right) mod 4.
C4_ModularClosure ==
    (/\ last.op \in {"add", "sub"}
     /\ LeftOperand # None
     /\ SameShapes(StateValue(heap, Val(LeftOperand)), StateValue(heap, Val(y)))) =>
        /\ last.raised = "none"
        /\ Reg(last.reg) # None
        /\ LET left == StateValue(heap, Val(LeftOperand))
               right == StateValue(heap, Val(y))
               res == StateValue(heap, Val(Reg(last.reg)))
           IN /\ WellShaped(res)
              /\ res.N = left.N
              /\ \A f \in Matrices \cup {"v", "s"} : \A k \in 1..Len(res[f].data) :
                    /\ res[f].data[k] \in {0, 1}
                    /\ res[f].data[k] = TrueResult(left[f].data[k], right[f].data[k]) % 2
              /\ \A k \in 1..Len(res.gamma.data) :
                    /\ res.gamma.data[k] \in {0, 1, 2, 3}
                    /\ res.gamma.data[k]
                          = TrueResult(left.gamma.data[k], right.gamma.data[k]) % 4

\* a difference whose 8-bit subtraction wraps below zero in gamma
C4_Witness ==
    /\ last.op = "sub"
    /\ last.reg = "r"
    /\ last.raised = "none"
    /\ x # None /\ y # None /\ r # None
    /\ Val(x).N = 2 /\ Val(y).N = 2
    /\ ArrayValue(heap, Val(x).g).data[1] = 3
    /\ ArrayValue(heap, Val(y).g).data[1] = 254
    /\ ArrayValue(heap, Val(r).g).data[1] = 1

\* a sum whose 8-bit addition wraps above 255
C4_WitnessSum ==
    /\ last.op = "add"
    /\ last.reg = "r"
    /\ x # None /\ y # None /\ r # None
    /\ Val(x).N = 2 /\ Val(y).N = 2
    /\ ArrayValue(heap, Val(x).g).data[1] = 255
    /\ ArrayValue(heap, Val(y).g).data[1] = 254
    /\ ArrayValue(heap, Val(r).g).data[1] = 1

----------------------------------------------------------------------------
(* C5 *)

\* C5: for same-size states X, Y with bit entries in {0,1} and gamma entries
\* in {0,1,2,3}, (X - Y) + Y has exactly the N, F, G, M, gamma, v and s of X.
C5_SubThenAdd ==
    (/\ last.op = "add" /\ last.reg = "t" /\ last.prev = "sub"
     /\ SameShapes(StateValue(heap, Val(x)), StateValue(heap, Val(y)))
     /\ InRange(StateValue(heap, Val(x)))
     /\ InRange(StateValue(heap, Val(y)))) =>
        /\ last.raised = "none"
        /\ t # None
        /\ LET X == StateValue(heap, Val(x))
               T == StateValue(heap, Val(t))
           IN /\ T.N = X.N
              /\ \A f \in Matrices \cup Vectors : T[f] = X[f]

C5_Witness ==
    /\ last.op = "add" /\ last.reg = "t" /\ last.prev = "sub"
    /\ t # None
    /\ Val(x).N = 2 /\ Val(y).N = 2
    /\ InRange(StateValue(heap, Val(x)))
    /\ InRange(StateValue(heap, Val(y)))
    /\ ArrayValue(heap, Val(x).g).data = <<2, 3>>
    /\ ArrayValue(heap, Val(y).g).data = <<3, 3>>
    /\ ArrayValue(heap, Val(r).g).data = <<3, 0>>

----------------------------------------------------------------------------
(* C6 *)

\* C6: + or - on two states of unequal N (also when one operand has N = 1
\* or N = 0) fails with a dimension-mismatch error and returns no state.
C6_UnequalSizesFail ==
    (/\ last.op \in {"add", "sub"}
     /\ last.reg = "r"
     /\ Val(x).N # Val(y).N) =>
        /\ last.raised = "ValueError"
        /\ r = None

----------------------------------------------------------------------------
(* C7 *)

\* C7: for a state of size N and an integer k outside [0, N) (k < 0 or
\* k >= N, negative k in [-N, -1] included), delete_qubit(k) fails with a
\* bounds error and returns no state.
C7_OutOfRangeFails ==
    (/\ last.op = "delete_qubit"
     /\ (last.k < 0 \/ last.k >= Val(x).N)) =>
        /\ last.raised = "IndexError"
        /\ r = None

----------------------------------------------------------------------------
(* C9 *)

\* the decimal form of a count below 100
Decimal(n) == IF n < 10 THEN <<Digits[n + 1]>> ELSE <<Digits[(n \div 10) + 1], Digits[(n % 10) + 1]>>

BitChar(b) == IF b = 1 THEN "1" ELSE "0"

\* row i (0-based) of a matrix value as contiguous '0'/'1' characters
BitRow(m, n, i) == [j \in 1..n |-> BitChar(MatEntry(m, i, j - 1))]

\* data row i (0-based) as the claim describes it
ExpectedRow(sv, i) ==
    (IF i = 0 THEN Decimal(sv.N) \o <<" ">> ELSE [q \in 1..(Len(Decimal(sv.N)) + 1) |-> " "])
    \o BitRow(sv.F, sv.N, i) \o <<" ">> \o BitRow(sv.G, sv.N, i) \o <<" ">>
    \o BitRow(sv.M, sv.N, i) \o <<" ">>
    \o <<Digits[VecEntry(sv.gamma, i) + 1], " ", Digits[VecEntry(sv.v, i) + 1], " ",
         Digits[VecEntry(sv.s, i) + 1]>>
    \o (IF i = 0 THEN <<" ">> \o str_complex(sv.phase) ELSE << >>)
    \o <<"\n">>

RECURSIVE ExpectedRows(_, _)
ExpectedRows(sv, i) == IF i >= sv.N THEN << >> ELSE ExpectedRow(sv, i) \o ExpectedRows(sv, i + 1)

\* the text after the first line break
RECURSIVE AfterFirstLine(_)
AfterFirstLine(text) ==
    IF text = << >> THEN << >>
    ELSE IF Head(text) = "\n" THEN Tail(text) ELSE AfterFirstLine(Tail(text))

\* the data rows of the rendering: all of str(X), X.tab() below its header
DataRows == IF last.op = "tab" THEN AfterFirstLine(Val(out)) ELSE Val(out)

LineBreaks(text) == Cardinality({q \in 1..Len(text) : text[q] = "\n"})

\* C9: for a state of size N >= 1 both formatters emit exactly N data rows,
\* each ended by a newline; row i is row i of F, of G and of M, each as N
\* contiguous '0'/'1' characters, then gamma[i], v[i], s[i], all separated
\* by single spaces; the first row is preceded by the decimal N and one
\* space and alone carries the phase, after one space; every later row is
\* left-padded with as many blanks as that qubit-count prefix is wide.
\* str(basis(N=1)) is "1 1 1 0 0 0 0 (1+0j)" plus a newline.
C9_Rendering ==
    (/\ last.op \in {"str", "tab"}
     /\ Val(x).N >= 1
     /\ WellShaped(StateValue(heap, Val(x)))
     /\ InRange(StateValue(heap, Val(x)))) =>
        /\ out # None
        /\ DataRows = ExpectedRows(StateValue(heap, Val(x)), 0)
        /\ LineBreaks(DataRows) = Val(x).N
        /\ (last.op = "str" /\ StateValue(heap, Val(x)) = StateValue(EmptyHeap, basis(EmptyHeap, Some(1), None)))
              => Val(out) = <<"1", " ", "1", " ", "1", " ", "0", " ", "0", " ", "0", " ", "0", " ",
                              "(", "1", "+", "0", "j", ")", "\n">>

\* a two-digit qubit count: the later rows are padded by three blanks
C9_Witness ==
    /\ last.op = "str"
    /\ out # None
    /\ Val(x).N = TwoDigitN
    /\ InRange(StateValue(heap, Val(x)))
    /\ SubSeq(Val(out), 1, 3) = <<"1", "0", " ">>
    /\ LineBreaks(Val(out)) = TwoDigitN

----------------------------------------------------------------------------
(* C10 *)

RECURSIVE FirstLine(_)
FirstLine(text) ==
    IF text = << >> THEN << >>
    ELSE IF Head(text) = "\n" THEN << >> ELSE <<Head(text)>> \o FirstLine(Tail(text))

Blanks(n) == [q \in 1..n |-> " "]

\* a header row with lead blank columns between the "N" and the "F" labels
HeaderWith(lead, n) ==
    <<"N">> \o Blanks(lead) \o <<"F">> \o Blanks(n) \o <<"G">> \o Blanks(n) \o <<"M">>
    \o Blanks(n - (n \div 2)) \o <<"g", " ", "v", " ", "s", " ", "w">>

\* C10 as claimed: the header row of tab() has exactly len(str(N)) - 1 + N//2
\* blank columns between the "N" label and the "F" label, then N blank
\* columns between "F" and "G" and N between "G" and "M", and N - N//2 blank
\* columns after "M" before the "g v s w" labels.
C10_HeaderAsClaimed ==
    (last.op = "tab") =>
        FirstLine(Val(out))
            = HeaderWith(Len(Decimal(Val(x).N)) - 1 + (Val(x).N \div 2), Val(x).N)

\* C10 amended: the header row of tab() has exactly len(str(N)) + N//2 blank
\* columns between the "N" label and the "F" label (the width of "N " that
\* the code subtracts one from counts the blank after the digits); the rest
\* as claimed.
C10_Header ==
    (last.op = "tab") =>
        FirstLine(Val(out))
            = HeaderWith(Len(Decimal(Val(x).N)) + (Val(x).N \div 2), Val(x).N)

C10_Witness ==
    /\ last.op = "tab"
    /\ out # None
    /\ Val(x).N = 3
    /\ FirstLine(Val(out))
          = <<"N", " ", " ", "F", " ", " ", " ", "G", " ", " ", " ", "M", " ", " ",
              "g", " ", "v", " ", "s", " ", "w">>

----------------------------------------------------------------------------
(* C8 *)

Holders == {"x", "y", "r", "arg"}

\* what a caller reads through a holder
HolderValue(who) ==
    IF who = "arg" THEN (IF arg = None THEN None ELSE Some(ArrayValue(heap, Val(arg))))
    ELSE IF Reg(who) = None THEN None ELSE Some(StateValue(heap, Val(Reg(who))))

\* the storage behind a holder's arrays
HolderBufs(who) == {a.buf : a \in HolderArrays(who)}

IsCall(op) == op \in {"basis", "add", "sub", "delete_qubit"}

\* a call leaves the states bound before it as they were, and basis leaves
\* the caller's sequence as it was handed over
InputsKept ==
    IsCall(last'.op) =>
        /\ \A who \in {"x", "y", "r"} :
              (HolderValue(who) # None /\ who # last'.reg) => HolderValue(who)' = HolderValue(who)
        /\ (last'.op = "basis" /\ last'.s # None) =>
              /\ arg' # None
              /\ HolderValue("arg")' = Some([shape |-> <<Len(Val(last'.s))>>, data |-> Val(last'.s)])

\* the returned state is newly stored: none of its arrays uses storage of
\* another holder
FreshResult ==
    \A res \in {"x", "y", "r"} :
        (IsCall(last'.op) /\ last'.reg = res /\ last'.raised = "none") =>
            /\ Reg(res)' # None
            /\ \A who \in Holders \ {res} : HolderBufs(res)' \cap HolderBufs(who)' = {}

\* an in-place write through one holder is not visible through another
WritesPrivate ==
    \A written \in Holders :
        (last'.op = "write" /\ last'.reg = written) =>
            /\ HolderValue(written)' # HolderValue(written)
            /\ \A who \in Holders \ {written} : HolderValue(who)' = HolderValue(who)

\* C8: basis, delete_qubit, + and - return a new instance and leave their
\* inputs unchanged: after X + Y, X - Y or X.delete_qubit(k) every field of
\* X and Y is what it was, after basis(N, s) the caller's sequence s is
\* unchanged, and the result shares no array storage with its inputs, so a
\* later in-place write to an input's array, or to the result's, is not
\* visible through the other.
C8_NoAliasing == [][InputsKept /\ FreshResult /\ WritesPrivate]_vars

\* the caller writes to the sequence it gave to basis(2, [1,1,1])
C8_Witness ==
    /\ last.op = "write"
    /\ last.reg = "arg"
    /\ last.prev = "basis"
    /\ x # None /\ y = None
    /\ HolderValue("arg") = Some([shape |-> <<3>>, data |-> <<2, 1, 1>>])
    /\ StateValue(heap, Val(x)).s = [shape |-> <<2>>, data |-> <<1, 1>>]

\* the caller writes to the result of X - Y
C8_WitnessResult ==
    /\ last.op = "write"
    /\ last.reg = "r"
    /\ last.prev = "sub"
    /\ Val(x).N = 2
    /\ StateValue(heap, Val(r)).F.data = <<1, 0, 0, 0>>
    /\ StateValue(heap, Val(x)).F.data = <<1, 0, 0, 1>>

====
